---- MODULE Spec2Model ----
(***************************************************************************)
(* A model of src/src/components/RecordingModule.tsx: the React component   *)
(* that acquires a camera/microphone stream, records it after a countdown   *)
(* and offers the result for playback.                                      *)
(*                                                                          *)
(* React state (useState) and refs (useRef) are the variables of the same   *)
(* names.  Platform objects (MediaStream, MediaRecorder, Blob) are kept in  *)
(* sequences and referred to by their index; 0 stands for null.  A handler  *)
(* is a function from the state record to the state record: it READS the    *)
(* values its closure captured at the last render (parameter c) and WRITES  *)
(* the pending state (parameter s); refs are read from s, since a ref is    *)
(* read live.  After a handler the component renders and its effects run    *)
(* (Render).  Time is counted in seconds; an asynchronous completion is an  *)
(* action of its own.                                                       *)
(*                                                                          *)
(* Platform behaviour the model follows: state updates made in one handler  *)
(* or callback are applied in one render; MediaRecorder.stop() on an        *)
(* inactive recorder does nothing, and start() throws on a recorder that is *)
(* not inactive or whose stream has no live track; a recorder started       *)
(* without a timeslice delivers its data in one dataavailable event, fired  *)
(* with the stop event; getUserMedia may take any time to settle, while     *)
(* enumerateDevices and the recorder's stop task settle within the second;  *)
(* enumerateDevices resolves, with two cameras and two microphones; a       *)
(* requestAnimationFrame loop runs until it stops re-scheduling itself.     *)
(* The unmount of the component is not a step of the model: its effect      *)
(* cleanups are the operator unmount.                                       *)
(***************************************************************************)
EXTENDS Integers, Sequences, FiniteSets

\* Bounds of the model.
MaxObjects == 4      \* getUserMedia requests (pending or resolved) plus MediaRecorders
MaxElapsed == 3      \* the clock advances while the elapsed time is below this

\* Program constants.
CountdownFrom == 3   \* setCountdown(3)
StartDelay == 3      \* setTimeout(..., 3000), in seconds
TickPeriod == 1      \* setInterval(..., 1000), in seconds

\* What navigator.mediaDevices.enumerateDevices() reports, by kind.
VideoInputs == <<"v1", "v2">>
AudioInputs == <<"a1", "a2">>

VARIABLES
    \* useState
    mediaStream, videoDevices, audioDevices, recordingTime,
    selectedVideoDevice, selectedAudioDevice, recording, videoSrc, isSubmit,
    recordedVideo, countdown,
    \* useRef
    mediaRecorderRef, audioContextRef,
    \* the chunks arrays the recorders' callbacks captured, and the recorder
    \* that first captured the array of the current render (0: none yet)
    chunks, chunksOwner,
    \* platform objects
    streams, recorders, blobs, objectURLs,
    \* asynchronous work in flight
    gumPending, enumPending, taskQ,
    \* timers: the 3 s start timeouts, the elapsed-time intervals (due / waiting),
    \* the countdown interval (-1: none, else seconds until it fires)
    startTimers, tickDue, tickWait, cdTimer,
    \* history: recordings started, the recording stopped last, the number of
    \* start timeouts that were pending when stopRecording last ended a
    \* recording and have not fired yet, and the seconds that passed since
    \* recording became true
    nCycles, lastStopped, leftover, recSeconds

vars == <<mediaStream, videoDevices, audioDevices, recordingTime,
          selectedVideoDevice, selectedAudioDevice, recording, videoSrc, isSubmit,
          recordedVideo, countdown, mediaRecorderRef, audioContextRef,
          chunks, chunksOwner, streams, recorders, blobs, objectURLs,
          gumPending, enumPending, taskQ, startTimers, tickDue, tickWait, cdTimer,
          nCycles, lastStopped, leftover, recSeconds>>

\* The state as one record, for the handlers to transform.
State ==
    [mediaStream |-> mediaStream, videoDevices |-> videoDevices,
     audioDevices |-> audioDevices, recordingTime |-> recordingTime,
     selectedVideoDevice |-> selectedVideoDevice,
     selectedAudioDevice |-> selectedAudioDevice, recording |-> recording,
     videoSrc |-> videoSrc, isSubmit |-> isSubmit, recordedVideo |-> recordedVideo,
     countdown |-> countdown, mediaRecorderRef |-> mediaRecorderRef,
     audioContextRef |-> audioContextRef, chunks |-> chunks,
     chunksOwner |-> chunksOwner, streams |-> streams, recorders |-> recorders,
     blobs |-> blobs, objectURLs |-> objectURLs, gumPending |-> gumPending,
     enumPending |-> enumPending, taskQ |-> taskQ, startTimers |-> startTimers,
     tickDue |-> tickDue, tickWait |-> tickWait, cdTimer |-> cdTimer,
     nCycles |-> nCycles, lastStopped |-> lastStopped, leftover |-> leftover]

\* The values a render shows and its closures capture.
ReactState(s) ==
    <<s.mediaStream, s.videoDevices, s.audioDevices, s.recordingTime,
      s.selectedVideoDevice, s.selectedAudioDevice, s.recording, s.videoSrc,
      s.isSubmit, s.recordedVideo, s.countdown>>

Remove(seq, i) == [j \in 1..(Len(seq) - 1) |-> IF j < i THEN seq[j] ELSE seq[j + 1]]

\* ------------------------------------------------------------- platform

\* track.stop() on every track of stream id: the stream holds no device any more.
StopTracks(s, id) ==
    [s EXCEPT !.streams[id].live = FALSE,
              !.streams[id].video = "", !.streams[id].audio = ""]

\* Faulty variant of MediaRecorderStop: the stop of an inactive recorder
\* fires the events too.
MediaRecorderStopAlwaysFires(s, r) ==
    [s EXCEPT !.recorders[r].state = "inactive",
              !.taskQ = Append(@, [rec |-> r, cycle |-> s.recorders[r].cycle]),
              !.lastStopped = s.recorders[r].cycle]

\* MediaRecorder.stop(): nothing on an inactive recorder; otherwise the
\* recorder becomes inactive and a task is queued that fires dataavailable
\* and then stop.
MediaRecorderStop(s, r) ==
    IF s.recorders[r].state = "inactive" THEN s
    ELSE [s EXCEPT !.recorders[r].state = "inactive",
                   !.taskQ = Append(@, [rec |-> r, cycle |-> s.recorders[r].cycle]),
                   !.lastStopped = s.recorders[r].cycle]

\* MediaRecorder.start() throws InvalidStateError unless the recorder is
\* inactive, and NotSupportedError when its stream has no live track.
MediaRecorderStartThrows(s, r) ==
    \/ s.recorders[r].state # "inactive"
    \/ ~s.streams[s.recorders[r].stream].live

MediaRecorderStart(s, r) ==
    [s EXCEPT !.recorders[r].state = "recording",
              !.recorders[r].cycle = s.nCycles + 1,
              !.nCycles = @ + 1]

\* AudioContext.close(); closing a closed context changes nothing.
AudioContextClose(s) ==
    IF s.audioContextRef = 0 THEN s
    ELSE [s EXCEPT !.streams[s.audioContextRef].ctx = "closed"]

\* The device getUserMedia opens for a deviceId constraint: the device asked
\* for, or the platform's default one for the empty id.
Opened(id, inputs) == IF id = "" THEN Head(inputs) ELSE id

\* ------------------------------------------------------------- handlers

\* handlePermission up to its await: getUserMedia is called with the device
\* ids of the closure.  swap tells the requests that handleDeviceChange
\* issues after it released a live stream from the others.
handlePermission(c, s, swap) ==
    [s EXCEPT !.gumPending = Append(@, [video |-> c.selectedVideoDevice,
                                        audio |-> c.selectedAudioDevice,
                                        swap |-> swap])]

\* Faulty variant of stopRecording: the elapsed time is not reset.
stopRecordingNoReset(c, s) ==
    LET s1 == IF s.mediaRecorderRef # 0
              THEN MediaRecorderStop(s, s.mediaRecorderRef) ELSE s
    IN  [s1 EXCEPT !.recording = FALSE,
                   !.leftover = IF s.recording THEN Len(s.startTimers) ELSE @]

stopRecording(c, s) ==
    LET s1 == IF s.mediaRecorderRef # 0
              THEN MediaRecorderStop(s, s.mediaRecorderRef) ELSE s
    IN  [s1 EXCEPT !.recording = FALSE, !.recordingTime = 0,
                   !.leftover = IF s.recording THEN Len(s.startTimers) ELSE @]

\* Faulty variant of denyMediaPermissions: the recorder ref is not cleared.
denyMediaPermissionsKeepsRecorder(c, s) ==
    LET s1 == IF c.mediaStream # 0 THEN StopTracks(s, c.mediaStream) ELSE s
        s2 == IF s1.mediaRecorderRef # 0
              THEN MediaRecorderStop(s1, s1.mediaRecorderRef)
              ELSE s1
        s3 == [s2 EXCEPT !.recording = FALSE, !.recordingTime = 0]
        s4 == AudioContextClose(s3)
    IN  [s4 EXCEPT !.mediaStream = 0]

denyMediaPermissions(c, s) ==
    LET s1 == IF c.mediaStream # 0 THEN StopTracks(s, c.mediaStream) ELSE s
        s2 == IF s1.mediaRecorderRef # 0
              THEN [MediaRecorderStop(s1, s1.mediaRecorderRef)
                        EXCEPT !.mediaRecorderRef = 0]
              ELSE s1
        s3 == [s2 EXCEPT !.recording = FALSE, !.recordingTime = 0]
        s4 == AudioContextClose(s3)
    IN  [s4 EXCEPT !.mediaStream = 0]

handleDeviceChange(c, s) ==
    LET s1 == IF c.mediaStream # 0
              THEN [StopTracks(s, c.mediaStream) EXCEPT !.mediaStream = 0]
              ELSE s
        s2 == stopRecording(c, s1)
    IN  handlePermission(c, s2, c.mediaStream # 0)

\* The selects' onChange handlers.
onChangeVideo(c, s, id) ==
    handleDeviceChange(c, [s EXCEPT !.selectedVideoDevice = id])

onChangeAudio(c, s, id) ==
    handleDeviceChange(c, [s EXCEPT !.selectedAudioDevice = id])

startRecording(c, s) ==
    LET s1 == [s EXCEPT !.countdown = CountdownFrom]
        r == Len(s.recorders) + 1
        arr == IF s.chunksOwner = 0 THEN r ELSE s.chunksOwner
    IN  IF c.mediaStream # 0
        THEN [s1 EXCEPT !.recorders = Append(@, [stream |-> c.mediaStream,
                                                 state |-> "inactive",
                                                 arr |-> arr, cycle |-> 0]),
                        !.chunks = Append(@, <<>>),
                        !.chunksOwner = arr,
                        !.mediaRecorderRef = r,
                        !.startTimers = Append(@, StartDelay)]
        ELSE s1

\* The callback of startRecording's setTimeout.
startTimerCallback(s) ==
    LET s1 == [s EXCEPT !.recordingTime = 0, !.tickWait = @ + 1]
        r == s.mediaRecorderRef
    IN  IF r = 0 THEN [s1 EXCEPT !.recording = TRUE]
        ELSE IF MediaRecorderStartThrows(s1, r) THEN s1
        ELSE [MediaRecorderStart(s1, r) EXCEPT !.recording = TRUE]

\* The callback of the elapsed-time setInterval.
elapsedTickCallback(s) == [s EXCEPT !.recordingTime = @ + 1]

\* The callback of the countdown setInterval.
countdownTickCallback(s) == [s EXCEPT !.countdown = @ - 1]

\* Faulty variant of handleSubmit: the test for a recorded video is missing.
handleSubmitUnguarded(c, s) ==
    denyMediaPermissions(c, [stopRecording(c, s) EXCEPT !.isSubmit = TRUE])

handleSubmit(c, s) ==
    IF c.recordedVideo # 0
    THEN denyMediaPermissions(c, [stopRecording(c, s) EXCEPT !.isSubmit = TRUE])
    ELSE s

\* The recorder's ondataavailable and onstop callbacks, for the queued task e.
ondataavailable(s, e) ==
    [s EXCEPT !.chunks[s.recorders[e.rec].arr] = Append(@, e.cycle)]

\* Faulty variant of onstop: the chunks are cleared before the blob is made.
onstopClearsFirst(s, e) ==
    LET arr == s.recorders[e.rec].arr
    IN  [s EXCEPT !.blobs = Append(@, <<>>),
                  !.recordedVideo = Len(s.blobs) + 1,
                  !.chunks[arr] = <<>>]

\* Faulty variant of onstop: the chunks are not cleared.
onstopKeepsChunks(s, e) ==
    LET arr == s.recorders[e.rec].arr
    IN  [s EXCEPT !.blobs = Append(@, s.chunks[arr]),
                  !.recordedVideo = Len(s.blobs) + 1]

onstop(s, e) ==
    LET arr == s.recorders[e.rec].arr
    IN  [s EXCEPT !.blobs = Append(@, s.chunks[arr]),
                  !.recordedVideo = Len(s.blobs) + 1,
                  !.chunks[arr] = <<>>]

\* -------------------------------------------------------------- effects

\* useEffect[mediaStream], lines 22-49: enumerate the devices for a new
\* stream (the continuation captures the selection of this render), or clear
\* the lists when the stream became null.
effectEnumerate(c, s) ==
    IF s.mediaStream = c.mediaStream THEN s
    ELSE IF s.mediaStream # 0
    THEN [s EXCEPT !.enumPending = Append(@, [video |-> s.selectedVideoDevice,
                                              audio |-> s.selectedAudioDevice])]
    ELSE [s EXCEPT !.audioDevices = <<>>, !.videoDevices = <<>>]

\* setupAudioProcessing: close the context of the ref, build one on the
\* stream and start its sampling loop.
setupAudioProcessing(s, id) ==
    [AudioContextClose(s) EXCEPT !.streams[id].ctx = "running",
                                 !.audioContextRef = id]

\* useEffect[mediaStream], lines 51-55.
effectAudio(c, s) ==
    IF s.mediaStream # c.mediaStream /\ s.mediaStream # 0
    THEN setupAudioProcessing(s, s.mediaStream) ELSE s

\* useEffect[selectedVideoDevice, selectedAudioDevice], lines 57-61; n is the
\* render whose closure the effect runs in.
effectSelection(c, n, s) ==
    IF /\ <<n.selectedVideoDevice, n.selectedAudioDevice>>
            # <<c.selectedVideoDevice, c.selectedAudioDevice>>
       /\ n.selectedAudioDevice # "" /\ n.selectedVideoDevice # ""
       /\ n.mediaStream # 0
    THEN handlePermission(n, s, FALSE) ELSE s

\* useEffect[countdown], lines 162-175: the previous interval is cleared and,
\* above 0, a new one is set.
effectCountdown(c, s) ==
    IF s.countdown = c.countdown THEN s
    ELSE [s EXCEPT !.cdTimer = IF s.countdown <= 0 THEN -1 ELSE TickPeriod]

\* Faulty variant of effectObjectURL: the previous URL is not revoked.
effectObjectURLNoRevoke(c, s) ==
    IF s.recordedVideo = c.recordedVideo THEN s
    ELSE IF s.recordedVideo # 0
         THEN [s EXCEPT !.objectURLs = @ \cup {s.recordedVideo},
                        !.videoSrc = s.recordedVideo]
         ELSE s

\* useEffect[recordedVideo], lines 193-206: the cleanup of the previous run
\* revokes its URL, then a URL is created for the new blob.
effectObjectURL(c, s) ==
    IF s.recordedVideo = c.recordedVideo THEN s
    ELSE LET kept == s.objectURLs \ {c.recordedVideo}
         IN  IF s.recordedVideo # 0
             THEN [s EXCEPT !.objectURLs = kept \cup {s.recordedVideo},
                            !.videoSrc = s.recordedVideo]
             ELSE [s EXCEPT !.objectURLs = kept]

\* The component is unmounted: the cleanups of the effects run.  The one of
\* lines 201-205 revokes the URL of the recorded video, the one of line 174
\* clears the countdown interval.
unmount(s) ==
    [s EXCEPT !.objectURLs = @ \ {s.recordedVideo}, !.cdTimer = -1]

\* The render that follows a batch of state updates, and its effects in the
\* order of their declaration.  c is the previous render, s what the handler
\* left; fresh says that a state was set to a new object.  A render creates
\* a new chunks array (line 20); without one the handlers keep theirs.
Render(c, s, fresh) ==
    LET e1 == effectEnumerate(c, s)
        e2 == effectAudio(c, e1)
        e3 == effectSelection(c, s, e2)
        e4 == effectCountdown(c, e3)
        e5 == effectObjectURL(c, e4)
    IN  IF fresh \/ ReactState(e5) # ReactState(c)
        THEN [e5 EXCEPT !.chunksOwner = 0] ELSE e5

\* The state becomes s, within the bounds of the model.
Set(s) ==
    /\ Len(s.streams) + Len(s.gumPending) + Len(s.recorders) <= MaxObjects
    /\ mediaStream' = s.mediaStream
    /\ videoDevices' = s.videoDevices
    /\ audioDevices' = s.audioDevices
    /\ recordingTime' = s.recordingTime
    /\ selectedVideoDevice' = s.selectedVideoDevice
    /\ selectedAudioDevice' = s.selectedAudioDevice
    /\ recording' = s.recording
    /\ videoSrc' = s.videoSrc
    /\ isSubmit' = s.isSubmit
    /\ recordedVideo' = s.recordedVideo
    /\ countdown' = s.countdown
    /\ mediaRecorderRef' = s.mediaRecorderRef
    /\ audioContextRef' = s.audioContextRef
    /\ chunks' = s.chunks
    /\ chunksOwner' = s.chunksOwner
    /\ streams' = s.streams
    /\ recorders' = s.recorders
    /\ blobs' = s.blobs
    /\ objectURLs' = s.objectURLs
    /\ gumPending' = s.gumPending
    /\ enumPending' = s.enumPending
    /\ taskQ' = s.taskQ
    /\ startTimers' = s.startTimers
    /\ tickDue' = s.tickDue
    /\ tickWait' = s.tickWait
    /\ cdTimer' = s.cdTimer
    /\ nCycles' = s.nCycles
    /\ lastStopped' = s.lastStopped
    /\ leftover' = s.leftover
    /\ recSeconds' = IF recording /\ s.recording THEN recSeconds ELSE 0

\* A handler ran: render, run the effects, commit.
Commit(s) == Set(Render(State, s, FALSE))

\* ---------------------------------------------------------------- model

Init ==
    /\ mediaStream = 0
    /\ videoDevices = <<>>
    /\ audioDevices = <<>>
    /\ recordingTime = 0
    /\ selectedVideoDevice = ""
    /\ selectedAudioDevice = ""
    /\ recording = FALSE
    /\ videoSrc = 0
    /\ isSubmit = FALSE
    /\ recordedVideo = 0
    /\ countdown = 0
    /\ mediaRecorderRef = 0
    /\ audioContextRef = 0
    /\ chunks = <<>>
    /\ chunksOwner = 0
    /\ streams = <<>>
    /\ recorders = <<>>
    /\ blobs = <<>>
    /\ objectURLs = {}
    /\ gumPending = <<>>
    /\ enumPending = <<>>
    /\ taskQ = <<>>
    /\ startTimers = <<>>
    /\ tickDue = 0
    /\ tickWait = 0
    /\ cdTimer = -1
    /\ nCycles = 0
    /\ lastStopped = 0
    /\ leftover = 0
    /\ recSeconds = 0

\* No timer is due.  A due timer fires before anything else happens: user
\* input and asynchronous completions fall between the seconds.
NoneDue ==
    /\ tickDue = 0
    /\ cdTimer # 0
    /\ \A k \in DOMAIN startTimers : startTimers[k] > 0

\* The "Ask Permission" button, rendered while mediaStream is null.
AskPermission ==
    /\ NoneDue
    /\ mediaStream = 0
    /\ Commit(handlePermission(State, State, FALSE))

\* getUserMedia request i resolves: the continuation of handlePermission.
GumResolve(i) ==
    LET req == gumPending[i]
        id == Len(streams) + 1
        stream == [video |-> Opened(req.video, VideoInputs),
                   audio |-> Opened(req.audio, AudioInputs),
                   live |-> TRUE, ctx |-> "none"]
    IN  /\ NoneDue
        /\ Commit([State EXCEPT !.gumPending = Remove(@, i),
                                !.streams = Append(@, stream),
                                !.mediaStream = id])

\* Faulty variant of GumReject: the catch asks for the devices again.
GumRejectRetries(i) ==
    /\ NoneDue
    /\ Commit(handlePermission(State, [State EXCEPT !.gumPending = Remove(@, i)],
                                gumPending[i].swap))

\* getUserMedia request i is rejected: the catch of handlePermission.
GumReject(i) ==
    /\ NoneDue
    /\ Commit([State EXCEPT !.gumPending = Remove(@, i)])

\* Faulty variant of EnumResolve: the audio list is not set.
EnumResolveVideoOnly(i) ==
    LET e == enumPending[i]
        s1 == [State EXCEPT !.enumPending = Remove(@, i),
                            !.videoDevices = VideoInputs]
        s2 == [s1 EXCEPT !.selectedVideoDevice =
                  IF e.video # "" THEN e.video ELSE VideoInputs[1]]
        s3 == [s2 EXCEPT !.selectedAudioDevice =
                  IF e.audio # "" THEN e.audio ELSE AudioInputs[1]]
    IN  /\ NoneDue
        /\ Set(Render(State, s3, TRUE))

\* enumerateDevices promise i resolves: the continuation of lines 24-44.
EnumResolve(i) ==
    LET e == enumPending[i]
        s1 == [State EXCEPT !.enumPending = Remove(@, i),
                            !.videoDevices = VideoInputs,
                            !.audioDevices = AudioInputs]
        s2 == IF Len(VideoInputs) > 0
              THEN [s1 EXCEPT !.selectedVideoDevice =
                        IF e.video # "" THEN e.video ELSE VideoInputs[1]]
              ELSE s1
        s3 == IF Len(AudioInputs) > 0
              THEN [s2 EXCEPT !.selectedAudioDevice =
                        IF e.audio # "" THEN e.audio ELSE AudioInputs[1]]
              ELSE s2
    IN  /\ NoneDue
        /\ Set(Render(State, s3, TRUE))

\* The user picks another camera / microphone among the listed ones.
ChangeVideo(id) ==
    /\ NoneDue
    /\ id # selectedVideoDevice
    /\ \E k \in DOMAIN videoDevices : videoDevices[k] = id
    /\ Commit(onChangeVideo(State, State, id))

ChangeAudio(id) ==
    /\ NoneDue
    /\ id # selectedAudioDevice
    /\ \E k \in DOMAIN audioDevices : audioDevices[k] = id
    /\ Commit(onChangeAudio(State, State, id))

\* The start/stop button (lines 301-311) is rendered while mediaStream is
\* set, and calls startRecording unless recording is true.
StartClick ==
    /\ NoneDue
    /\ mediaStream # 0
    /\ ~recording
    /\ Commit(startRecording(State, State))

StopClick ==
    /\ NoneDue
    /\ mediaStream # 0
    /\ recording
    /\ Commit(stopRecording(State, State))

\* The "Submit Video" button, rendered while mediaStream is set.
SubmitClick ==
    /\ NoneDue
    /\ mediaStream # 0
    /\ Commit(handleSubmit(State, State))

\* The oldest start timeout is due and fires.
StartTimerFire ==
    /\ startTimers # <<>>
    /\ Head(startTimers) = 0
    /\ Commit(startTimerCallback(
           [State EXCEPT !.startTimers = Tail(@),
                         !.leftover = IF @ > 0 THEN @ - 1 ELSE 0]))

\* An elapsed-time interval is due and fires.
ElapsedTick ==
    /\ tickDue > 0
    /\ Commit(elapsedTickCallback([State EXCEPT !.tickDue = @ - 1,
                                                !.tickWait = @ + 1]))

\* The countdown interval is due and fires.
CountdownTick ==
    /\ cdTimer = 0
    /\ Commit(countdownTickCallback([State EXCEPT !.cdTimer = TickPeriod]))

\* The task a recorder's stop queued runs: dataavailable, then stop.
Finalize ==
    /\ NoneDue
    /\ taskQ # <<>>
    /\ LET e == Head(taskQ)
       IN  Commit(onstop(ondataavailable([State EXCEPT !.taskQ = Tail(@)], e), e))

\* One second passes: no timer is due, and the queued tasks and the device
\* enumerations, which take no user's time, have completed.
Advance ==
    /\ NoneDue
    /\ taskQ = <<>>
    /\ enumPending = <<>>
    /\ recordingTime < MaxElapsed
    /\ recSeconds < MaxElapsed
    /\ startTimers' = [k \in DOMAIN startTimers |-> startTimers[k] - 1]
    /\ tickDue' = tickWait
    /\ tickWait' = 0
    /\ cdTimer' = IF cdTimer > 0 THEN cdTimer - 1 ELSE cdTimer
    /\ recSeconds' = IF recording THEN recSeconds + 1 ELSE recSeconds
    /\ UNCHANGED <<mediaStream, videoDevices, audioDevices, recordingTime,
                   selectedVideoDevice, selectedAudioDevice, recording, videoSrc,
                   isSubmit, recordedVideo, countdown, mediaRecorderRef,
                   audioContextRef, chunks, chunksOwner, streams, recorders, blobs,
                   objectURLs, gumPending, enumPending, taskQ, nCycles, lastStopped,
                   leftover>>

Next ==
    \/ AskPermission
    \/ \E i \in DOMAIN gumPending : GumResolve(i)
    \/ \E i \in DOMAIN gumPending : GumReject(i)
    \/ \E i \in DOMAIN enumPending : EnumResolve(i)
    \/ \E id \in {VideoInputs[k] : k \in DOMAIN VideoInputs} : ChangeVideo(id)
    \/ \E id \in {AudioInputs[k] : k \in DOMAIN AudioInputs} : ChangeAudio(id)
    \/ StartClick
    \/ StopClick
    \/ SubmitClick
    \/ StartTimerFire
    \/ ElapsedTick
    \/ CountdownTick
    \/ Finalize
    \/ Advance

Spec == Init /\ [][Next]_vars

\* --------------------------------------------------------------- claims

\* The acquired streams that still have unstopped tracks.
LiveStreams == {k \in DOMAIN streams : streams[k].live}

Last(seq) == seq[Len(seq)]

\* C1: in every reachable state at most one acquired stream has unstopped
\* tracks.
C1_AtMostOneLiveStream == Cardinality(LiveStreams) <= 1

\* C2: when the acquisition that a device change issued on a live session
\* resolves and no other acquisition is pending, exactly one stream has
\* unstopped tracks, and it is the one held in mediaStream.
C2_OneSessionAfterSwitch ==
    [][\A i \in DOMAIN gumPending :
          (gumPending[i].swap /\ Len(gumPending) = 1 /\ GumResolve(i))
              => (LiveStreams' = {mediaStream'})]_vars

\* C3: the acquisition a device change issues asks for the newly selected
\* device of the changed kind and the current device of the other kind.
C3_SwitchRequestsNewDevice ==
    [][/\ \A id \in {VideoInputs[k] : k \in DOMAIN VideoInputs} :
              ChangeVideo(id) =>
                  /\ Last(gumPending').video = id
                  /\ Last(gumPending').audio = selectedAudioDevice
       /\ \A id \in {AudioInputs[k] : k \in DOMAIN AudioInputs} :
              ChangeAudio(id) =>
                  /\ Last(gumPending').audio = id
                  /\ Last(gumPending').video = selectedVideoDevice]_vars

\* C4: a start while a start is already counting down is a no-op: no
\* further recorder, no further start timer, no restart of the countdown.
C4_StartIgnoredWhileCountingDown ==
    [][(StartClick /\ startTimers # <<>>)
          => /\ recorders' = recorders
             /\ mediaRecorderRef' = mediaRecorderRef
             /\ startTimers' = startTimers
             /\ countdown' = countdown
             /\ cdTimer' = cdTimer]_vars

\* C5: once a stopped recording has been finalized, the recorded video is
\* the artifact of the recording stopped last, and holds that recording's
\* data only: a later recording's artifact replaces the earlier one.
C5_ArtifactOfLastRecording ==
    (taskQ = <<>> /\ lastStopped # 0)
        => (recordedVideo # 0 /\ blobs[recordedVideo] = <<lastStopped>>)

\* C5 witness: after a first start/stop cycle, a second recorder was started
\* and stopped with the session kept, and once it was finalized its artifact
\* replaced the first one.
C5_Witness ==
    /\ Len(recorders) = 2
    /\ recorders[1].cycle = 1
    /\ recorders[2].cycle = 2
    /\ mediaStream # 0
    /\ ~isSubmit
    /\ ~recording
    /\ taskQ = <<>>
    /\ lastStopped = 2
    /\ Len(blobs) = 2
    /\ recordedVideo = 2

\* C6: a submit with a recorded video leaves mediaStream null, recording
\* false, no recorder recording, submitted set, no stream with unstopped
\* tracks, and the recorded video in place.
C6_SubmitReleasesEverything ==
    [][(SubmitClick /\ recordedVideo # 0)
          => /\ mediaStream' = 0
             /\ ~recording'
             /\ \A r \in DOMAIN recorders' : recorders'[r].state = "inactive"
             /\ isSubmit'
             /\ LiveStreams' = {}
             /\ recordedVideo' = recordedVideo]_vars

\* C7: a submit without a recorded video changes neither recording, the
\* elapsed time, the submitted flag, mediaStream, the recorder nor a track.
C7_SubmitWithoutArtifactIsNoOp ==
    [][(SubmitClick /\ recordedVideo = 0)
          => UNCHANGED <<recording, recordingTime, isSubmit, mediaStream,
                         mediaRecorderRef, recorders, streams, taskQ>>]_vars

\* C7 witness: the submit button can be pressed during a recording for which
\* no recorded video exists yet.
C7_Witness ==
    /\ NoneDue
    /\ mediaStream # 0
    /\ recordedVideo = 0
    /\ recording
    /\ recordingTime > 0
    /\ recorders[mediaRecorderRef].state = "recording"

\* C8: while recording, once the due ticks are delivered, the elapsed time
\* is the number of seconds since recording began, and one ticker drives it.
C8_ElapsedCountsSeconds ==
    (recording /\ tickDue = 0)
        => (recordingTime = recSeconds /\ tickWait = 1)

\* C9: the elapsed time is 0 right after recording becomes true and right
\* after a stop.
C9_ElapsedResets ==
    [][/\ (~recording /\ recording') => recordingTime' = 0
       /\ StopClick => recordingTime' = 0]_vars

\* C9 witness: after a first recording was stopped, a second recorder has
\* just begun to record, with the elapsed time at 0 although the ticker of
\* the first recording ran on through the countdown.
C9_Witness ==
    /\ recording
    /\ Len(recorders) = 2
    /\ recorders[1].cycle = 1
    /\ recorders[2].state = "recording"
    /\ lastStopped = 1
    /\ recSeconds = 0
    /\ recordingTime = 0
    /\ tickDue + tickWait = 2

\* C10: a start sets the countdown to 3, a tick takes 1 off it and never
\* takes it below 0, and recording becomes true only with the countdown at 0.
C10_RecordingOnlyAfterCountdown ==
    [][/\ StartClick => countdown' = CountdownFrom
       /\ CountdownTick => (countdown' = countdown - 1 /\ countdown' >= 0)
       /\ (~recording /\ recording') => (countdown = 0 /\ countdown' = 0)]_vars

\* C11: denyMediaPermissions called twice in a row, within one render or
\* with a render in between, leaves what one call leaves: mediaStream null,
\* the tracks of the stream stopped, the recorder stopped and the ref
\* cleared, recording false, the elapsed time 0, the audio context closed.
C11_ReleaseIdempotent ==
    LET once == denyMediaPermissions(State, State)
        shown == Render(State, once, FALSE)
    IN  /\ denyMediaPermissions(State, once) = once
        /\ denyMediaPermissions(shown, shown) = shown
        /\ once.mediaStream = 0
        /\ mediaStream # 0 => ~once.streams[mediaStream].live
        /\ once.mediaRecorderRef = 0
        /\ mediaRecorderRef # 0
               => once.recorders[mediaRecorderRef].state = "inactive"
        /\ ~once.recording
        /\ once.recordingTime = 0
        /\ audioContextRef # 0 => once.streams[audioContextRef].ctx = "closed"

\* C11 witness: a submit has released the session of a finalized recording;
\* nothing is held any more, and a further release finds no stream and no
\* recorder.
C11_Witness ==
    /\ isSubmit
    /\ mediaStream = 0
    /\ mediaRecorderRef = 0
    /\ ~recording
    /\ recordedVideo # 0
    /\ audioContextRef # 0
    /\ streams[audioContextRef].ctx = "closed"
    /\ LiveStreams = {}

\* C12: when the device enumeration of an acquired stream completes, a kind
\* with no device selected gets the first enumerated device of that kind,
\* and a kind with a device selected keeps its selection.
C12_DefaultSelection ==
    [][\A i \in DOMAIN enumPending :
          EnumResolve(i) =>
              /\ selectedVideoDevice' =
                     IF selectedVideoDevice = "" THEN VideoInputs[1]
                     ELSE selectedVideoDevice
              /\ selectedAudioDevice' =
                     IF selectedAudioDevice = "" THEN AudioInputs[1]
                     ELSE selectedAudioDevice]_vars

\* C13: a rejected getUserMedia request changes neither mediaStream, the
\* device lists, the selections, recording, the recorder nor the recorded
\* video, and issues no further request.
C13_FailedRequestChangesNothing ==
    [][\A i \in DOMAIN gumPending :
          GumReject(i) =>
              /\ UNCHANGED <<mediaStream, videoDevices, audioDevices,
                             selectedVideoDevice, selectedAudioDevice, recording,
                             mediaRecorderRef, recorders, recordedVideo, streams,
                             enumPending, startTimers>>
              /\ gumPending' = Remove(gumPending, i)]_vars

\* C13 witness: the request that followed the default selection was
\* rejected: the first stream is still the session, alive and alone, with
\* the lists and the selection in place and nothing pending.
C13_Witness ==
    /\ mediaStream = 1
    /\ Len(streams) = 1
    /\ streams[1].live
    /\ selectedVideoDevice # ""
    /\ selectedAudioDevice # ""
    /\ videoDevices = VideoInputs
    /\ audioDevices = AudioInputs
    /\ gumPending = <<>>
    /\ enumPending = <<>>

\* C14: a recorded video exists only if a recorder that was recording has
\* been stopped, and every artifact holds the data of a recording that was
\* started: none comes from a recorder that never recorded.
C14_ArtifactOnlyFromRecording ==
    /\ recordedVideo # 0 => (lastStopped # 0 /\ nCycles > 0)
    /\ \A b \in DOMAIN blobs :
           \E r \in DOMAIN recorders :
               /\ recorders[r].cycle > 0
               /\ \E k \in 1..recorders[r].cycle : blobs[b] = <<k>>
    /\ \A k \in DOMAIN taskQ : taskQ[k].cycle > 0

\* C14 witness: a submit stopped a recorder that was created by a start but
\* never started; the recorded video is still the one of the recording
\* made before, and no task is queued for the unstarted recorder.
C14_Witness ==
    /\ isSubmit
    /\ mediaRecorderRef = 0
    /\ taskQ = <<>>
    /\ Len(recorders) = 2
    /\ recorders[1].cycle = 1
    /\ recorders[2].cycle = 0
    /\ Len(blobs) = 1
    /\ recordedVideo = 1

\* C15: whenever mediaStream is set, the video and the audio device lists
\* are populated.
C15_SessionImpliesDeviceLists ==
    mediaStream # 0 => (videoDevices # <<>> /\ audioDevices # <<>>)

\* C15, as the code has it: the lists are empty while the enumeration that
\* the new stream started is under way; when an enumeration resolves both
\* lists are populated, and populated lists stay so for as long as a stream
\* is held.
C15_ListsPopulatedOnceEnumerated ==
    [][/\ \A i \in DOMAIN enumPending :
              EnumResolve(i) => (videoDevices' # <<>> /\ audioDevices' # <<>>)
       /\ (mediaStream # 0 /\ mediaStream' # 0
               /\ videoDevices # <<>> /\ audioDevices # <<>>)
              => (videoDevices' # <<>> /\ audioDevices' # <<>>)]_vars

\* C15 witness: the stream acquired after a device change is held, its
\* enumeration has resolved and both lists are populated.
C15_Witness ==
    /\ Len(streams) >= 2
    /\ mediaStream = Len(streams)
    /\ \E k \in DOMAIN streams : ~streams[k].live
    /\ gumPending = <<>>
    /\ enumPending = <<>>
    /\ videoDevices = VideoInputs
    /\ audioDevices = AudioInputs

\* The sampling loops that are scheduled: updateVolume re-schedules itself
\* on every frame (line 132) and nothing cancels it, so the loop started
\* for a stream runs on after its context was closed.
VolumeLoops == {k \in DOMAIN streams : streams[k].ctx # "none"}

\* C16: a volume sampling loop runs if and only if a stream is held: one
\* loop, on the held stream, and none once the stream was released or
\* replaced.
C16_SamplingIffSession ==
    VolumeLoops = IF mediaStream # 0 THEN {mediaStream} ELSE {}

\* C17: at most one object URL is unrevoked at any time; with a recorded
\* video it is the URL made for that video, and videoSrc is that URL; the
\* URL of a superseded video is revoked, and so is the last one when the
\* component is unmounted.
C17_OneObjectURL ==
    /\ Cardinality(objectURLs) <= 1
    /\ recordedVideo # 0 => (objectURLs = {recordedVideo} /\ videoSrc = recordedVideo)
    /\ recordedVideo = 0 => (objectURLs = {} /\ videoSrc = 0)
    /\ unmount(State).objectURLs = {}

\* C17 witness: a second recording was finalized: its URL is the only one
\* unrevoked and videoSrc refers to it.
C17_Witness ==
    /\ Len(blobs) = 2
    /\ recordedVideo = 2
    /\ objectURLs = {2}
    /\ videoSrc = 2

\* C18: the blob made when a stopped recording is finalized is the sequence
\* of exactly the fragments that recording delivered, in their order, with
\* no fragment of an earlier recording or of another recorder, and after it
\* the fragment array is empty.
C18_ArtifactOfOwnFragments ==
    [][Finalize =>
          LET e == Head(taskQ)
              arr == recorders[e.rec].arr
          IN  /\ recorders[e.rec].cycle = e.cycle
              /\ blobs' = Append(blobs, chunks[arr] \o <<e.cycle>>)
              /\ chunks[arr] = <<>>
              /\ recordedVideo' = Len(blobs')
              /\ \A a \in DOMAIN chunks' : chunks'[a] = <<>>]_vars

\* C18 witness: one recorder recorded twice into the same fragment array
\* (a start superseded by a second start left a timer that restarted it),
\* and each of the two blobs holds the fragment of its own recording.
C18_Witness ==
    /\ Len(blobs) = 2
    /\ blobs[1] = <<1>>
    /\ blobs[2] = <<2>>
    /\ \E r \in DOMAIN recorders : recorders[r].cycle = 2
    /\ \E r \in DOMAIN recorders : recorders[r].cycle = 0
    /\ taskQ = <<>>
    /\ \A a \in DOMAIN chunks : chunks[a] = <<>>

\* C19: whenever recording is true, a stream is held and the recorder ref
\* holds a recorder that is recording that stream; a start timer does not
\* set recording once the stream was released or replaced.
C19_RecordingImpliesLiveRecorder ==
    recording =>
        /\ mediaStream # 0
        /\ mediaRecorderRef # 0
        /\ recorders[mediaRecorderRef].state = "recording"
        /\ recorders[mediaRecorderRef].stream = mediaStream

\* C20: a start timeout that was already pending when stopRecording ended
\* a recording neither starts a recorder nor sets recording back to true:
\* after a stop, recording begins again only by a start made after it.
C20_NoRestartByLeftoverTimer ==
    [][(StartTimerFire /\ leftover > 0)
          => (recording' = recording /\ recorders' = recorders)]_vars

====
